---- MODULE Spec2Model ----
(***************************************************************************)
(* Model of the rental-property analysis core of PropertyManager:          *)
(*   src/analysis.py  calculate_monthly_cash_flow,                         *)
(*                    calculate_break_even_down_payment                    *)
(*   src/app.py       calculate_investment_projections                     *)
(*                                                                         *)
(* Numbers.  The code computes in binary floating point.  The model        *)
(* computes the same expressions in exact integer arithmetic:              *)
(*   - analysis.py: prices, rents and the insurance are whole dollars,     *)
(*     every derived column is a whole number of cents obtained by the     *)
(*     code's round(x, 2) (round half to even) of the exact quotient;      *)
(*   - a down-payment fraction is held in units of 0.0001 (2000 = 0.20);   *)
(*   - an annual interest rate is an exact fraction num/den;               *)
(*   - NaN (0.0/0.0 of a pandas Series division) is a distinguished value  *)
(*     for which every comparison is false and which every arithmetic      *)
(*     operation propagates.                                               *)
(***************************************************************************)
EXTENDS Integers, Sequences, FiniteSets, TLC

(***************************************************************************)
(* Bounds of the model.                                                    *)
(***************************************************************************)
MaxRows == 3
MaxFetchRows == 2
MaxHoldingYears == 3

(***************************************************************************)
(* Arithmetic helpers.                                                     *)
(***************************************************************************)
RECURSIVE Pow(_, _)
Pow(b, e) == IF e = 0 THEN 1 ELSE b * Pow(b, e - 1)

RECURSIVE GCD(_, _)
GCD(a, b) == IF b = 0 THEN a ELSE GCD(b, a % b)

\* the float NaN
NaN == -999999999

IsNaN(x) == x = NaN

\* x > y on floats: false when either side is NaN
FGt(x, y) == ~IsNaN(x) /\ ~IsNaN(y) /\ x > y

\* round(n / d) to the nearest integer, ties to the even one (d > 0)
RoundHalfEven(n, d) ==
    LET q == n \div d
        r == n % d
    IN  IF 2 * r < d THEN q
        ELSE IF 2 * r > d THEN q + 1
        ELSE IF q % 2 = 0 THEN q ELSE q + 1

\* round(x, 2) of an amount x = n / d cents: a whole number of cents
Round2(n, d) == RoundHalfEven(n, d)

(***************************************************************************)
(* calculate_monthly_cash_flow, column by column.                          *)
(***************************************************************************)
\* monthly_rate = interest_rate / 12, as a reduced fraction
MonthlyRate(rate) ==
    LET g == GCD(rate.num, 12 * rate.den)
    IN  [num |-> rate.num \div g, den |-> (12 * rate.den) \div g]

\* loan_to_value = 1 - down_payment_percent, in units of 0.0001
LoanToValue(downBp) == 10000 - downBp

\* a wrong tax rate (1.20% instead of 1.25%)
PropertyTaxWrongRate(price) == Round2(price * 120, 1200)

\* df["PropertyTax"] = round((Price * 0.0125) / 12, 2), in cents
PropertyTax(price) == Round2(price * 125, 1200)

\* df["MonthlyMortgage"], in cents: the level-payment formula
\*   (ltv * Price) * (r * (1 + r)^n) / ((1 + r)^n - 1)
\* with r = num/den: numerator and denominator share the factor den^n.
\* At r = 0 the Series division is 0.0 / 0 = NaN.
MonthlyMortgage(price, rate, loan_months, downBp) ==
    LET r  == MonthlyRate(rate)
        An == Pow(r.den + r.num, loan_months)
        Bn == Pow(r.den, loan_months)
    IN  IF An - Bn = 0 THEN NaN
        ELSE Round2(LoanToValue(downBp) * price * r.num * An,
                    100 * r.den * (An - Bn))

\* df["MonthlyCashFlow"] = round(Rent - (Tax + Mortgage + insurance), 2)
MonthlyCashFlow(rent, tax, mortgage, insurance) ==
    IF IsNaN(mortgage) THEN NaN
    ELSE Round2(100 * rent - (tax + mortgage + 100 * insurance), 1)

\* one row of the returned frame: the input row with the three new columns
CashFlowRow(row, p, downBp) ==
    LET tax  == PropertyTax(row.Price)
        mort == MonthlyMortgage(row.Price, p.rate, p.loan_months, downBp)
    IN  [id              |-> row.id,
         Price           |-> row.Price,
         RentEstimate    |-> row.RentEstimate,
         PropertyTax     |-> tax,
         MonthlyMortgage |-> mort,
         MonthlyCashFlow |-> MonthlyCashFlow(row.RentEstimate, tax, mort,
                                             p.monthly_insurance)]

\* the frame before the sort
CashFlowColumns(df, p, downBp) ==
    [i \in 1..Len(df) |-> CashFlowRow(df[i], p, downBp)]


\* a sort in ascending order (best deals last)
RowOrderAscending(a, b) ==
    /\ ~FGt(a.MonthlyCashFlow, b.MonthlyCashFlow)
    /\ (IsNaN(a.MonthlyCashFlow) => IsNaN(b.MonthlyCashFlow))

\* a may stand before b after sort_values(by=['MonthlyCashFlow'],
\* ascending=False): no smaller value before a larger one, NaN rows last
RowOrder(a, b) ==
    /\ ~FGt(b.MonthlyCashFlow, a.MonthlyCashFlow)
    /\ (IsNaN(a.MonthlyCashFlow) => IsNaN(b.MonthlyCashFlow))

RowPermutations(n) ==
    {f \in [1..n -> 1..n] : \A i, j \in 1..n : i # j => f[i] # f[j]}

\* df.sort_values(by=['MonthlyCashFlow'], ascending=False) followed by
\* reset_index(drop=True).  sort_values is called without kind=, so pandas
\* sorts the non-NaN values with numpy's 'quicksort', which pandas and numpy
\* document as not stable: the order among rows of equal MonthlyCashFlow is
\* whatever the build's quicksort leaves, and every ordered arrangement is an
\* outcome.  The NaN rows are appended after the sort, in their input order.
SortValues(rows) ==
    {s \in {[i \in 1..Len(rows) |-> rows[f[i]]] : f \in
              {g \in RowPermutations(Len(rows)) :
                 \A i, j \in 1..Len(rows) :
                    (i < j /\ IsNaN(rows[g[i]].MonthlyCashFlow)
                           /\ IsNaN(rows[g[j]].MonthlyCashFlow)) => g[i] < g[j]}} :
        \A i, j \in 1..Len(rows) : i < j => RowOrder(s[i], s[j])}

\* the columns assigned to the caller's own frame, df.copy() left out
CallerFrameNoCopy(df, worked) == worked

\* line 23, df = df.copy(): the columns are assigned to a copy (worked) and
\* the frame the caller passed stays as it was
CallerFrame(df, worked) == df

\* the frames calculate_monthly_cash_flow(df, interest_rate, loan_months,
\* monthly_insurance, down_payment_percent) can return
calculate_monthly_cash_flow(df, p, downBp) ==
    SortValues(CashFlowColumns(df, p, downBp))

(***************************************************************************)
(* calculate_break_even_down_payment: the helpers of its loop.             *)
(***************************************************************************)
\* np.arange(start, stop, step): start + i * step for
\* i = 0 .. ceil((stop - start) / step) - 1; stop itself is never produced
Arange(start, stop, step) ==
    LET n == (stop - start + step - 1) \div step
    IN  [i \in 1..n |-> start + (i - 1) * step]

\* a scan that begins one step late
DownPctsFrom21 == Arange(2100, 10000, 100)

\* a scan in steps of 0.02
DownPctsStep2 == Arange(2000, 10000, 200)

\* the scan begun at 0.01: 99 candidates
DownPctsFrom1 == Arange(100, 10000, 100)

\* np.arange(0.20, 1.0, 0.01), in units of 0.0001
DownPcts == Arange(2000, 10000, 100)

\* the tests `row['MonthlyCashFlow'] > 0` and
\* `test_df['MonthlyCashFlow'].iloc[0] > 0`
Profitable(cf) == FGt(cf, 0)

\* round(down_pct, 1): one decimal kept instead of two
RoundPctOneDecimal(downBp) == 10 * RoundHalfEven(downBp, 1000)

\* round(down_pct, 2), in hundredths (20 = 0.20)
RoundPct(downBp) == RoundHalfEven(downBp, 100)

\* the new frame put in front of the rows gathered so far
ConcatInFront(result, frame) == frame \o result

\* pd.concat([result_df, frame], ignore_index=True)
Concat(result, frame) == result \o frame

\* a mistyped literal
TwentyFivePercent == 20 + 5

\* the literal 0.20 appended for a row that is already profitable,
\* in hundredths
TwentyPercent == 20

\* round(DownPaymentPercent * Price, 2), in cents
DownPaymentAmount(pct, price) == Round2(pct * price * 100, 100)

\* the two columns added to result_df after the loop
WithDownPayment(rows, pcts) ==
    [i \in 1..Len(rows) |->
        [id                 |-> rows[i].id,
         Price              |-> rows[i].Price,
         RentEstimate       |-> rows[i].RentEstimate,
         PropertyTax        |-> rows[i].PropertyTax,
         MonthlyMortgage    |-> rows[i].MonthlyMortgage,
         MonthlyCashFlow    |-> rows[i].MonthlyCashFlow,
         DownPaymentPercent |-> pcts[i],
         DownPaymentAmount  |-> DownPaymentAmount(pcts[i], rows[i].Price)]]


(***************************************************************************)
(* calculate_investment_projections (src/app.py).  Amounts are whole       *)
(* numbers of 0.0001 dollar (100 units = one cent); a rate or a fraction   *)
(* is num/den; a product with a fraction is rounded to the nearest unit.   *)
(* A quotient is rounded to the nearest unit as well, so the level payment *)
(* is a finite-precision number as it is in the code: for a purchase price *)
(* of 409500 the payment is exact and the schedule ends at a balance of 0, *)
(* for 409565 it is not and the schedule ends a few units away from 0, as  *)
(* the code's binary floating point does (400000 at 20% down over 30 years *)
(* at rate 0 leaves a balance of 2.5e-09 after 360 payments).              *)
(***************************************************************************)
\* x * f for a fraction f
FMul(x, f) == RoundHalfEven(x * f.num, f.den)

Min(a, b) == IF a <= b THEN a ELSE b

\* round(x, 2) of an amount in units: whole cents
RoundCents(x) == RoundHalfEven(x, 100)

\* down_payment = purchase_price * down_payment_pct
down_payment(i) == FMul(i.purchase_price, i.down_payment_pct)

\* loan_amount = purchase_price - down_payment
loan_amount(i) == i.purchase_price - down_payment(i)

\* total_months = loan_years * 12
total_months(i) == i.loan_years * 12

\* monthly_mortgage: the level payment when interest_rate > 0, else
\* loan_amount / total_months
monthly_mortgage(i) ==
    LET r  == MonthlyRate(i.interest_rate)
        An == Pow(r.den + r.num, total_months(i))
        Bn == Pow(r.den, total_months(i))
    IN  IF i.interest_rate.num > 0
        THEN RoundHalfEven(loan_amount(i) * r.num * An, r.den * (An - Bn))
        ELSE RoundHalfEven(loan_amount(i), total_months(i))

\* the repairs left out of the cash invested
TotalCashInvestedNoRepairs(i) == down_payment(i)

\* total_cash_invested = down_payment + initial_repairs
total_cash_invested(i) == down_payment(i) + i.initial_repairs

\* interest charged at the annual rate every month (the / 12 forgotten)
InterestPaymentAnnualRate(balance, i) == FMul(balance, i.interest_rate)

\* interest_payment = temp_balance * monthly_rate
InterestPayment(balance, i) == FMul(balance, MonthlyRate(i.interest_rate))

\* extra_from_cashflow: a share of the gross cash flow only when positive
ExtraFromCashflow(gross, i) ==
    IF gross > 0 THEN FMul(gross, i.cashflow_to_principal_pct) ELSE 0

\* the extra payment held to the balance, the scheduled principal forgotten
ClampExtraToBalance(total_extra, temp_balance, principal_payment) ==
    Min(total_extra, temp_balance)

\* the extra payment not held back at all
ClampExtraLeftOut(total_extra, temp_balance, principal_payment) == total_extra

\* total_extra = min(total_extra, temp_balance - principal_payment)
ClampExtra(total_extra, temp_balance, principal_payment) ==
    Min(total_extra, temp_balance - principal_payment)

\* one pass of the body of `for month in range(12)` on the locals l:
\* the new locals and what the pass did
MonthBody(l, i) ==
    IF l.temp_balance > 0
    THEN LET interest_payment  == InterestPayment(l.temp_balance, i)
             principal_payment == monthly_mortgage(i) - interest_payment
             extra_from_fixed  == i.extra_payment_monthly
             extra_from_cashflow == ExtraFromCashflow(l.monthly_cash_flow_gross, i)
             total_extra == ClampExtra(extra_from_fixed + extra_from_cashflow,
                                       l.temp_balance, principal_payment)
             reduced == l.temp_balance - (principal_payment + total_extra)
         IN  [locals |->
                [l EXCEPT
                   !.principal_paid = @ + principal_payment + total_extra,
                   !.total_extra_principal_this_year = @ + total_extra,
                   !.temp_balance = IF reduced < 0 THEN 0 ELSE reduced],
              step |->
                [applied           |-> TRUE,
                 before            |-> l.temp_balance,
                 interest_payment  |-> interest_payment,
                 principal_payment |-> principal_payment,
                 total_extra       |-> total_extra,
                 unclamped         |-> reduced]]
    ELSE [locals |-> l,
          step   |-> [applied           |-> FALSE,
                      before            |-> l.temp_balance,
                      interest_payment  |-> 0,
                      principal_payment |-> 0,
                      total_extra       |-> 0,
                      unclamped         |-> l.temp_balance]]

\* 1 + f for a fraction f
OnePlus(f) == [num |-> f.den + f.num, den |-> f.den]

\* growth applied in every year, the first included
AppreciatedEveryYear(amount, rate, year) == FMul(amount, OnePlus(rate))

\* lines 76-78: `if year > 1: amount *= (1 + rate)`
Appreciated(amount, rate, year) ==
    IF year > 1 THEN FMul(amount, OnePlus(rate)) ELSE amount

\* the locals at the top of the year's body, lines 73-94
YearTop(l, i, year) ==
    LET value == Appreciated(l.current_property_value, i.annual_appreciation, year)
        rent  == Appreciated(l.current_monthly_rent, i.annual_rent_increase, year)
        monthly_property_tax ==
            RoundHalfEven(value * i.annual_tax_rate.num, i.annual_tax_rate.den * 12)
        monthly_maintenance ==
            RoundHalfEven(i.purchase_price * i.ongoing_maintenance_pct.num,
                          i.ongoing_maintenance_pct.den * 12)
        effective_monthly_rent ==
            FMul(rent, [num |-> i.vacancy_rate.den - i.vacancy_rate.num,
                        den |-> i.vacancy_rate.den])
        monthly_expenses == monthly_mortgage(i) + monthly_property_tax
                            + i.monthly_insurance + monthly_maintenance
    IN  [l EXCEPT
           !.year_start_balance = l.remaining_balance,
           !.current_property_value = value,
           !.current_monthly_rent = rent,
           !.effective_monthly_rent = effective_monthly_rent,
           !.monthly_expenses = monthly_expenses,
           !.monthly_cash_flow_gross = effective_monthly_rent - monthly_expenses,
           !.principal_paid = 0,
           !.total_extra_principal_this_year = 0,
           !.temp_balance = l.remaining_balance]

\* the year's cash flow taken off the running total instead of added
YearBottomCashFlowSubtracted(l, i) ==
    LET annual_cash_flow == l.monthly_cash_flow_gross * 12
                            - l.total_extra_principal_this_year
    IN  [l EXCEPT
           !.remaining_balance = l.temp_balance,
           !.cumulative_extra_principal = @ + l.total_extra_principal_this_year,
           !.annual_cash_flow = annual_cash_flow,
           !.cumulative_cash_flow = @ - annual_cash_flow]

\* the locals after the month loop, lines 124-148
YearBottom(l, i) ==
    LET annual_cash_flow == l.monthly_cash_flow_gross * 12
                            - l.total_extra_principal_this_year
    IN  [l EXCEPT
           !.remaining_balance = l.temp_balance,
           !.cumulative_extra_principal = @ + l.total_extra_principal_this_year,
           !.annual_cash_flow = annual_cash_flow,
           !.cumulative_cash_flow = @ + annual_cash_flow]

\* equity taken to be the property value alone
EquityIgnoresLoan(l) == l.current_property_value

\* line 132: equity = current_property_value - remaining_balance
Equity(l) == l.current_property_value - l.remaining_balance

\* the record appended to projections, lines 153-169 (CashOnCashReturn and
\* TotalROI, two quotients no property here reads, are left out)
YearRecord(l, i, year) ==
    LET equity == Equity(l)
        total_cash_invested_adjusted ==
            total_cash_invested(i) + l.cumulative_extra_principal
        selling_costs == RoundHalfEven(l.current_property_value * 6, 100)
        net_proceeds == l.current_property_value - l.remaining_balance - selling_costs
        total_profit == net_proceeds + l.cumulative_cash_flow
                        - total_cash_invested_adjusted
    IN  [Year                     |-> year,
         PropertyValue            |-> RoundCents(l.current_property_value),
         MonthlyRent              |-> RoundCents(l.current_monthly_rent),
         MonthlyCashFlow          |-> RoundCents(RoundHalfEven(l.annual_cash_flow, 12)),
         AnnualCashFlow           |-> RoundCents(l.annual_cash_flow),
         CumulativeCashFlow       |-> RoundCents(l.cumulative_cash_flow),
         LoanBalance              |-> RoundCents(l.remaining_balance),
         PrincipalPaid            |-> RoundCents(l.principal_paid),
         ExtraPrincipalThisYear   |-> RoundCents(l.total_extra_principal_this_year),
         CumulativeExtraPrincipal |-> RoundCents(l.cumulative_extra_principal),
         Equity                   |-> RoundCents(equity),
         NetProceedsIfSold        |-> RoundCents(net_proceeds),
         TotalProfit              |-> RoundCents(total_profit)]

\* range(1, holding_years): the last year left out
LastYearExclusive(i) == i.holding_years - 1

\* line 71: the last year of range(1, holding_years + 1)
LastYear(i) == i.holding_years

\* the locals before the first year, lines 64-69
StartLocals(i) ==
    [current_property_value          |-> i.purchase_price,
     current_monthly_rent            |-> i.monthly_rent,
     remaining_balance               |-> loan_amount(i),
     cumulative_cash_flow            |-> 0,
     cumulative_extra_principal      |-> 0,
     year_start_balance              |-> loan_amount(i),
     effective_monthly_rent          |-> 0,
     monthly_expenses                |-> 0,
     monthly_cash_flow_gross         |-> 0,
     principal_paid                  |-> 0,
     total_extra_principal_this_year |-> 0,
     temp_balance                    |-> loan_amount(i),
     annual_cash_flow                |-> 0]


(***************************************************************************)
(* The inputs.                                                             *)
(***************************************************************************)
\* annual interest rates: 0 and 1.2 (a monthly rate of 1/10)
Rates == {[num |-> 0, den |-> 1], [num |-> 12, den |-> 10]}

\* listing rows as the fetch collaborator supplies them (whole dollars)
RowKinds ==
    {[Price |-> 160, RentEstimate |-> 73],
     [Price |-> 100, RentEstimate |-> 60],
     [Price |-> 80,  RentEstimate |-> 1]}

\* tables of at most MaxRows rows; id is the row's place in the table
Listings ==
    UNION {{[i \in 1..n |-> [id |-> i, Price |-> f[i].Price,
                             RentEstimate |-> f[i].RentEstimate]] :
              f \in [1..n -> RowKinds]} : n \in 0..MaxRows}

\* (interest_rate, loan_months, monthly_insurance)
LoanParams ==
    [rate : Rates, loan_months : {2}, monthly_insurance : {0, 1}]

\* down_payment_percent of the cash-flow call, in units of 0.0001
CashFlowDownPcts == {2000, 5000}

\* inputs of calculate_investment_projections
ProjectionInputs ==
    {i \in [purchase_price            : {409500, 409565},
            down_payment_pct          : {[num |-> 1, den |-> 5]},
            interest_rate             : {[num |-> 0, den |-> 1], [num |-> 12, den |-> 1]},
            loan_years                : {1, 2},
            monthly_insurance         : {1000},
            annual_tax_rate           : {[num |-> 12, den |-> 1000]},
            monthly_rent              : {20000, 400000},
            vacancy_rate              : {[num |-> 5, den |-> 100]},
            annual_appreciation       : {[num |-> 3, den |-> 100]},
            annual_rent_increase      : {[num |-> 25, den |-> 1000]},
            holding_years             : 1..MaxHoldingYears,
            initial_repairs           : {0, 50000},
            ongoing_maintenance_pct   : {[num |-> 1, den |-> 100]},
            extra_payment_monthly     : {0, 13000, 13650},
            cashflow_to_principal_pct : {[num |-> 0, den |-> 1], [num |-> 1, den |-> 2]}] :
        i.interest_rate.num > 0 => (i.loan_years = 1 /\ i.purchase_price = 409500)}

(***************************************************************************)
(* State.                                                                  *)
(***************************************************************************)
VARIABLES
    listings,                  \* the table handed to calculate_monthly_cash_flow
    cashflow_df,               \* the frame it returned
    cf_params,                 \* the arguments of that call
    be_params,                 \* the arguments of the break-even call
    pc,                        \* where the analysis run stands
    idx,                       \* rows of df.iterrows() taken so far
    scan,                      \* place in np.arange(0.20, 1.0, 0.01)
    result_df,                 \* result_df of the break-even call
    down_payment_percentages,  \* its list of accepted fractions
    tested,                    \* fractions tested for the current row, with
                               \* the cash flow each gave
    outcome,                   \* what became of the current row
    breakeven_df,              \* the frame the break-even call returned
    inp,                       \* arguments of calculate_investment_projections
    ppc,                       \* where the projection run stands
    year,                      \* for year in range(1, holding_years + 1)
    month,                     \* months of the year's inner loop done
    loc,                       \* the function's local variables
    mstep,                     \* what the last pass of the month loop did
    projections,               \* the records appended so far
    listings_data,             \* st.session_state.listings_data
    analysis_data,             \* st.session_state.analysis_data
    sidebar,                   \* the values of the sidebar's number inputs
    breakeven_call             \* the break-even call made in the last rerun

cfVars == <<listings, cashflow_df, cf_params, be_params, pc, idx, scan, result_df,
            down_payment_percentages, tested, outcome, breakeven_df>>

projVars == <<inp, ppc, year, month, loc, mstep, projections>>

dashVars == <<listings_data, analysis_data, sidebar, breakeven_call>>

vars == <<cfVars, projVars, dashVars>>

\* None of st.session_state.listings_data and .analysis_data; neither is
\* ever set to an empty frame
None == <<>>

\* no break-even call was made in the rerun
NoCall == [called |-> FALSE, df |-> <<>>,
           rate |-> [num |-> 0, den |-> 1], loan_months |-> 0,
           monthly_insurance |-> 0]

\* the defaults of the sidebar: value=6.1 (here the positive rate), the
\* term, value=20.0 and the insurance
SidebarDefaults ==
    [rate |-> [num |-> 12, den |-> 10], loan_months |-> 2,
     monthly_insurance |-> 1, down_payment |-> 2000]

NoParams == [rate |-> [num |-> 0, den |-> 1], loan_months |-> 0, monthly_insurance |-> 0]

NoStep == [applied |-> FALSE, before |-> 0, interest_payment |-> 0,
           principal_payment |-> 0, total_extra |-> 0, unclamped |-> 0]

AnalysisIdle ==
    /\ listings = <<>>
    /\ cashflow_df = <<>>
    /\ cf_params = NoParams
    /\ be_params = NoParams
    /\ pc = "off"
    /\ idx = 0
    /\ scan = 0
    /\ result_df = <<>>
    /\ down_payment_percentages = <<>>
    /\ tested = <<>>
    /\ outcome = "none"
    /\ breakeven_df = <<>>

DashboardIdle ==
    /\ listings_data = None
    /\ analysis_data = None
    /\ sidebar = SidebarDefaults
    /\ breakeven_call = NoCall

ProjectionIdle ==
    /\ inp = <<>>
    /\ ppc = "off"
    /\ year = 0
    /\ month = 0
    /\ loc = <<>>
    /\ mstep = NoStep
    /\ projections = <<>>

(***************************************************************************)
(* The analysis run: calculate_monthly_cash_flow on a table, then          *)
(* calculate_break_even_down_payment on the frame it returned (main.py     *)
(* lines 65-85, app.py lines 667-739).                                     *)
(***************************************************************************)
Init ==
    /\ listings \in Listings
    /\ cashflow_df = <<>>
    /\ cf_params = NoParams
    /\ be_params = NoParams
    /\ pc = "start"
    /\ idx = 0
    /\ scan = 0
    /\ result_df = <<>>
    /\ down_payment_percentages = <<>>
    /\ tested = <<>>
    /\ outcome = "none"
    /\ breakeven_df = <<>>
    /\ ProjectionIdle
    /\ DashboardIdle

\* analysis.py lines 23-52, the whole call
CalculateCashFlow ==
    /\ pc = "start"
    /\ \E p \in LoanParams, d \in CashFlowDownPcts :
         /\ cf_params' = [rate |-> p.rate, loan_months |-> p.loan_months,
                          monthly_insurance |-> p.monthly_insurance,
                          down_payment_percent |-> d]
         /\ cashflow_df' \in calculate_monthly_cash_flow(listings, p, d)
         /\ listings' = CallerFrame(listings, CashFlowColumns(listings, p, d))
    /\ pc' = "cashflow"
    /\ UNCHANGED <<be_params, idx, scan, result_df,
                   down_payment_percentages, tested, outcome, breakeven_df>>
    /\ UNCHANGED <<projVars, dashVars>>

\* analysis.py lines 69-70: the break-even call begins
BreakEvenStart ==
    /\ pc = "cashflow"
    /\ be_params' \in LoanParams
    /\ result_df' = <<>>
    /\ down_payment_percentages' = <<>>
    /\ idx' = 0
    /\ pc' = "rows"
    /\ UNCHANGED <<listings, cashflow_df, cf_params, scan, tested, outcome,
                   breakeven_df>>
    /\ UNCHANGED <<projVars, dashVars>>

\* analysis.py lines 72-81: the next row; accepted at 0.20 when its
\* MonthlyCashFlow is already positive, else the scan begins
BreakEvenRow ==
    /\ pc = "rows"
    /\ idx < Len(cashflow_df)
    /\ idx' = idx + 1
    /\ tested' = <<>>
    /\ LET row == cashflow_df[idx + 1]
       IN  IF Profitable(row.MonthlyCashFlow)
           THEN /\ result_df' = Concat(result_df, <<row>>)
                /\ down_payment_percentages' =
                       Append(down_payment_percentages, TwentyPercent)
                /\ outcome' = "at20"
                /\ UNCHANGED <<pc, scan>>
           ELSE /\ pc' = "scan"
                /\ scan' = 1
                /\ outcome' = "scanning"
                /\ UNCHANGED <<result_df, down_payment_percentages>>
    /\ UNCHANGED <<listings, cashflow_df, cf_params, be_params, breakeven_df>>
    /\ UNCHANGED <<projVars, dashVars>>

\* analysis.py lines 82-95: one candidate of the scan
BreakEvenTest ==
    /\ pc = "scan"
    /\ scan <= Len(DownPcts)
    /\ LET down_pct == DownPcts[scan]
       IN  \E test_df \in calculate_monthly_cash_flow(<<cashflow_df[idx]>>,
                                                      be_params, down_pct) :
             /\ tested' = Append(tested, [down_pct |-> down_pct,
                                          cash_flow |-> test_df[1].MonthlyCashFlow])
             /\ IF Profitable(test_df[1].MonthlyCashFlow)
                THEN /\ result_df' = Concat(result_df, test_df)
                     /\ down_payment_percentages' =
                            Append(down_payment_percentages, RoundPct(down_pct))
                     /\ outcome' = "found"
                     /\ pc' = "rows"
                     /\ UNCHANGED scan
                ELSE /\ scan' = scan + 1
                     /\ UNCHANGED <<result_df, down_payment_percentages, outcome, pc>>
    /\ UNCHANGED <<listings, cashflow_df, cf_params, be_params, idx, breakeven_df>>
    /\ UNCHANGED <<projVars, dashVars>>

\* analysis.py lines 97-99: the scan ran out, the row is skipped
BreakEvenSkip ==
    /\ pc = "scan"
    /\ scan > Len(DownPcts)
    /\ outcome' = "skipped"
    /\ pc' = "rows"
    /\ UNCHANGED <<listings, cashflow_df, cf_params, be_params, idx, scan, result_df,
                   down_payment_percentages, tested, breakeven_df>>
    /\ UNCHANGED <<projVars, dashVars>>

\* analysis.py lines 101-108.  result_df began as pd.DataFrame(): when no row
\* was accepted it still has no column at all, the empty list is assigned to
\* DownPaymentPercent, and result_df['Price'] raises KeyError.
BreakEvenFinish ==
    /\ pc = "rows"
    /\ idx = Len(cashflow_df)
    /\ IF Len(down_payment_percentages) # Len(result_df)
       THEN pc' = "ValueError" /\ UNCHANGED breakeven_df
       ELSE IF result_df = <<>>
       THEN pc' = "KeyError" /\ UNCHANGED breakeven_df
       ELSE /\ breakeven_df' = WithDownPayment(result_df, down_payment_percentages)
            /\ pc' = "returned"
    /\ UNCHANGED <<listings, cashflow_df, cf_params, be_params, idx, scan, result_df,
                   down_payment_percentages, tested, outcome>>
    /\ UNCHANGED <<projVars, dashVars>>

Next ==
    \/ CalculateCashFlow
    \/ BreakEvenStart
    \/ BreakEvenRow
    \/ BreakEvenTest
    \/ BreakEvenSkip
    \/ BreakEvenFinish

Spec == Init /\ [][Next]_vars

(***************************************************************************)
(* The analysis run on a table that holds an invalid row: the same calls,  *)
(* handed a negative Price.  The functions check none of their arguments.  *)
(***************************************************************************)
\* one- and two-row tables with at least one row of negative Price
InvalidListings ==
    LET kinds == RowKinds \cup {[Price |-> -100, RentEstimate |-> 60]}
    IN  UNION {{[i \in 1..n |-> [id |-> i, Price |-> f[i].Price,
                                 RentEstimate |-> f[i].RentEstimate]] :
                  f \in {g \in [1..n -> kinds] : \E j \in 1..n : g[j].Price < 0}} :
               n \in 1..2}

InitInvalid ==
    /\ listings \in InvalidListings
    /\ cashflow_df = <<>>
    /\ cf_params = NoParams
    /\ be_params = NoParams
    /\ pc = "start"
    /\ idx = 0
    /\ scan = 0
    /\ result_df = <<>>
    /\ down_payment_percentages = <<>>
    /\ tested = <<>>
    /\ outcome = "none"
    /\ breakeven_df = <<>>
    /\ ProjectionIdle
    /\ DashboardIdle

SpecInvalid == InitInvalid /\ [][Next]_vars

(***************************************************************************)
(* The projection run: one call of calculate_investment_projections.       *)
(***************************************************************************)
InitProj ==
    /\ AnalysisIdle
    /\ DashboardIdle
    /\ inp \in ProjectionInputs
    /\ ppc = "year"
    /\ year = 0
    /\ month = 0
    /\ loc = StartLocals(inp)
    /\ mstep = NoStep
    /\ projections = <<>>

\* app.py lines 71-94: the next year begins
YearStart ==
    /\ ppc = "year"
    /\ year < LastYear(inp)
    /\ year' = year + 1
    /\ loc' = YearTop(loc, inp, year + 1)
    /\ month' = 0
    /\ mstep' = NoStep
    /\ ppc' = "month"
    /\ UNCHANGED <<inp, projections>>
    /\ UNCHANGED <<cfVars, dashVars>>

\* app.py lines 96-122: one month of the inner loop
MonthStep ==
    /\ ppc = "month"
    /\ month < 12
    /\ month' = month + 1
    /\ loc' = MonthBody(loc, inp).locals
    /\ mstep' = MonthBody(loc, inp).step
    /\ UNCHANGED <<inp, ppc, year, projections>>
    /\ UNCHANGED <<cfVars, dashVars>>

\* app.py lines 124-169: the year's totals and its record
YearEnd ==
    /\ ppc = "month"
    /\ month = 12
    /\ loc' = YearBottom(loc, inp)
    /\ projections' = Append(projections, YearRecord(loc', inp, year))
    /\ ppc' = "year"
    /\ UNCHANGED <<inp, year, month, mstep>>
    /\ UNCHANGED <<cfVars, dashVars>>

\* app.py line 171: return pd.DataFrame(projections)
ProjectionsReturn ==
    /\ ppc = "year"
    /\ year >= LastYear(inp)
    /\ ppc' = "returned"
    /\ UNCHANGED <<inp, year, month, loc, mstep, projections>>
    /\ UNCHANGED <<cfVars, dashVars>>

NextProj ==
    \/ YearStart
    \/ MonthStep
    \/ YearEnd
    \/ ProjectionsReturn

SpecProj == InitProj /\ [][NextProj]_vars


(***************************************************************************)
(* Either run: an analysis run or a projection run.                        *)
(***************************************************************************)
InitBoth == Init \/ InitProj

NextBoth == Next \/ NextProj

SpecBoth == InitBoth /\ [][NextBoth]_vars

(***************************************************************************)
(* The dashboard (src/app.py, main).  Streamlit runs main() again on every *)
(* interaction; st.session_state lives across the reruns, the sidebar's    *)
(* number inputs are read afresh in each, and at most one button is True   *)
(* in a rerun.  One action is one rerun.                                   *)
(***************************************************************************)
\* the values the sidebar's number inputs can hold: interest_rate,
\* loan_years * 12, monthly_insurance and down_payment (units of 0.0001)
SidebarValues ==
    [rate : Rates, loan_months : {2}, monthly_insurance : {0, 1},
     down_payment : CashFlowDownPcts]

\* the frames a fetch can deliver, RentEstimate filled in
FetchedTables == {t \in Listings : Len(t) \in 1..MaxFetchRows}

\* session state as lines 24-27 leave it in the first run
InitDash ==
    /\ AnalysisIdle
    /\ ProjectionIdle
    /\ listings_data = None
    /\ analysis_data = None
    /\ sidebar = SidebarDefaults
    /\ breakeven_call = NoCall

\* the user edits a number input of the sidebar: a rerun with no button
\* pressed
ChangeSidebar ==
    /\ \E s \in SidebarValues :
          /\ s # sidebar
          /\ sidebar' = s
    /\ breakeven_call' = NoCall
    /\ UNCHANGED <<listings_data, analysis_data, cfVars, projVars>>

\* "Fetch Listings" with a URL: an empty frame or an exception ends the run
\* with an error message (df = <<>>), anything else is stored in
\* listings_data; analysis_data is not touched
FetchListings ==
    /\ \E df \in FetchedTables \cup {<<>>} :
          listings_data' = IF df = <<>> THEN listings_data ELSE df
    /\ breakeven_call' = NoCall
    /\ UNCHANGED <<analysis_data, sidebar, cfVars, projVars>>

\* "Calculate Cash Flow": calculate_monthly_cash_flow on listings_data with
\* the sidebar's values, the down payment among them
ClickCalculateCashFlow ==
    /\ listings_data # None
    /\ \E analysis_df \in calculate_monthly_cash_flow(listings_data, sidebar,
                                                      sidebar.down_payment) :
          analysis_data' = analysis_df
    /\ breakeven_call' = NoCall
    /\ UNCHANGED <<listings_data, sidebar, cfVars, projVars>>

\* "Calculate Break-Even": a warning while analysis_data is None, otherwise
\* calculate_break_even_down_payment on analysis_data with the sidebar's
\* values; what it returns is displayed and not stored
ClickBreakEven ==
    /\ listings_data # None
    /\ breakeven_call' =
          IF analysis_data = None THEN NoCall
          ELSE [called |-> TRUE, df |-> analysis_data,
                rate |-> sidebar.rate, loan_months |-> sidebar.loan_months,
                monthly_insurance |-> sidebar.monthly_insurance]
    /\ UNCHANGED <<listings_data, analysis_data, sidebar, cfVars, projVars>>

NextDash ==
    \/ ChangeSidebar
    \/ FetchListings
    \/ ClickCalculateCashFlow
    \/ ClickBreakEven

SpecDash == InitDash /\ [][NextDash]_vars

(***************************************************************************)
(* Properties of the analysis run (specification Spec).                    *)
(***************************************************************************)
\* the break-even call is inside its loop over the rows
InBreakEvenLoop == pc \in {"rows", "scan"} /\ idx >= 1

\* the break-even call has ended, by a return or by an exception
BreakEvenEnded == pc \in {"returned", "KeyError", "ValueError"}

\* MonthlyCashFlow of a row at a down payment of pct hundredths, by the
\* formula of calculate_monthly_cash_flow with the break-even call's arguments
CashFlowAt(row, pct) == CashFlowRow(row, be_params, 100 * pct).MonthlyCashFlow

\* C1: calculate_break_even_down_payment never fails because no viable down
\* payment exists: when every input record is omitted, or the input has no
\* rows, the call returns an empty result instead of raising an error.
C1_EmptyResultIsReturned ==
    (BreakEvenEnded /\ result_df = <<>>) =>
        (pc = "returned" /\ breakeven_df = <<>>)

\* C2: a record whose MonthlyCashFlow is not > 0 is scanned: the fractions
\* tested are 0.20, 0.21, ... in increasing order, never 1.00, each with the
\* cash flow of calculate_monthly_cash_flow at that fraction; every fraction
\* tested before the last gave no positive cash flow; the record is accepted
\* exactly when the last tested fraction gave a positive one, with that
\* fraction, and it is skipped only after all 80 fractions failed.
C2_ScanInOrderFirstPositive ==
    InBreakEvenLoop =>
        LET row == cashflow_df[idx]
            r   == MonthlyRate(be_params.rate)
            An  == Pow(r.den + r.num, be_params.loan_months)
            Bn  == Pow(r.den, be_params.loan_months)
            tax == RoundHalfEven(125 * row.Price, 1200)
            \* the cash flow of calculate_monthly_cash_flow at fraction d
            At(d) == IF An = Bn THEN NaN
                     ELSE 100 * row.RentEstimate
                          - (tax
                             + RoundHalfEven((10000 - d) * row.Price * r.num * An,
                                             100 * r.den * (An - Bn))
                             + 100 * be_params.monthly_insurance)
            last == tested[Len(tested)]
        IN  /\ ~FGt(row.MonthlyCashFlow, 0) =>
                   outcome \in {"scanning", "found", "skipped"}
            /\ outcome \in {"scanning", "found", "skipped"} =>
                 /\ \A n \in 1..Len(tested) :
                      /\ tested[n].down_pct = 2000 + 100 * (n - 1)
                      /\ tested[n].down_pct <= 9900
                      /\ tested[n].cash_flow = At(tested[n].down_pct)
                      /\ n < Len(tested) => ~FGt(tested[n].cash_flow, 0)
                 /\ outcome = "scanning" =>
                      /\ pc = "scan"
                      /\ scan = Len(tested) + 1
                      /\ tested # <<>> => ~FGt(last.cash_flow, 0)
                 /\ outcome = "found" =>
                      /\ tested # <<>>
                      /\ FGt(last.cash_flow, 0)
                      /\ result_df # <<>>
                      /\ result_df[Len(result_df)].id = row.id
                      /\ result_df[Len(result_df)].MonthlyCashFlow = last.cash_flow
                      /\ 100 * down_payment_percentages[Len(down_payment_percentages)]
                             = last.down_pct
                 /\ outcome = "skipped" =>
                      /\ Len(tested) = 80
                      /\ ~FGt(last.cash_flow, 0)

\* C2 witness: a record was accepted at the third fraction of its scan
C2_Witness ==
    /\ InBreakEvenLoop
    /\ outcome = "found"
    /\ Len(tested) = 3
    /\ tested[3].down_pct = 2200

\* C3, as the claim states it: for every output record that needed more than
\* 20% down, the reported fraction yields MonthlyCashFlow >= 0 and the
\* fraction one step below it yields MonthlyCashFlow < 0.
C3_MinimalNonNegative ==
    pc = "returned" =>
        \A n \in 1..Len(breakeven_df) :
            breakeven_df[n].DownPaymentPercent > 20 =>
                /\ ~IsNaN(CashFlowAt(breakeven_df[n], breakeven_df[n].DownPaymentPercent))
                /\ CashFlowAt(breakeven_df[n], breakeven_df[n].DownPaymentPercent) >= 0
                /\ ~IsNaN(CashFlowAt(breakeven_df[n], breakeven_df[n].DownPaymentPercent - 1))
                /\ CashFlowAt(breakeven_df[n], breakeven_df[n].DownPaymentPercent - 1) < 0

\* C3, amended: for every output record that needed more than 20% down, the
\* reported fraction yields MonthlyCashFlow > 0 (the value the record
\* carries) and the fraction one step below it yields MonthlyCashFlow <= 0.
C3_MinimalPositive ==
    pc = "returned" =>
        \A n \in 1..Len(breakeven_df) :
            breakeven_df[n].DownPaymentPercent > 20 =>
                /\ breakeven_df[n].DownPaymentPercent <= 99
                /\ FGt(CashFlowAt(breakeven_df[n], breakeven_df[n].DownPaymentPercent), 0)
                /\ breakeven_df[n].MonthlyCashFlow =
                       CashFlowAt(breakeven_df[n], breakeven_df[n].DownPaymentPercent)
                /\ ~IsNaN(CashFlowAt(breakeven_df[n], breakeven_df[n].DownPaymentPercent - 1))
                /\ CashFlowAt(breakeven_df[n], breakeven_df[n].DownPaymentPercent - 1) <= 0

\* C3 witness: an output record needed 22% down, and 21% gave exactly zero
C3_Witness ==
    /\ pc = "returned"
    /\ \E n \in 1..Len(breakeven_df) :
         /\ breakeven_df[n].DownPaymentPercent = 22
         /\ CashFlowAt(breakeven_df[n], 21) = 0

\* C4: a record whose MonthlyCashFlow is already > 0 is accepted as it is
\* with DownPaymentPercent exactly 0.20, and calculate_monthly_cash_flow is
\* not called for it.
C4_AlreadyProfitableAt20 ==
    /\ (InBreakEvenLoop /\ FGt(cashflow_df[idx].MonthlyCashFlow, 0)) =>
          /\ outcome = "at20"
          /\ pc = "rows"
          /\ tested = <<>>
          /\ result_df # <<>>
          /\ result_df[Len(result_df)] = cashflow_df[idx]
          /\ Len(down_payment_percentages) = Len(result_df)
          /\ down_payment_percentages[Len(result_df)] = 20
    /\ pc = "returned" =>
          \A n \in 1..Len(breakeven_df) :
             \A m \in 1..Len(cashflow_df) :
                (cashflow_df[m].id = breakeven_df[n].id
                    /\ FGt(cashflow_df[m].MonthlyCashFlow, 0)) =>
                   /\ breakeven_df[n].DownPaymentPercent = 20
                   /\ breakeven_df[n].MonthlyCashFlow = cashflow_df[m].MonthlyCashFlow

\* C4 witness: the call returned a record accepted at 0.20 without a scan,
\* although the call's own arguments give it no positive cash flow at 20%
C4_Witness ==
    /\ pc = "returned"
    /\ \E n \in 1..Len(breakeven_df) :
         /\ breakeven_df[n].DownPaymentPercent = 20
         /\ ~FGt(CashFlowAt(breakeven_df[n], 20), 0)

\* C5: with an annual interest rate of 0, calculate_monthly_cash_flow gives
\* every record the straight-line payment
\* round(price * (1 - downPaymentFraction) / termMonths, 2) as MonthlyMortgage
\* and a MonthlyCashFlow that is not NaN.
C5_ZeroRateStraightLine ==
    (pc = "cashflow" /\ cf_params.rate.num = 0) =>
        \A n \in 1..Len(cashflow_df) :
            /\ cashflow_df[n].MonthlyMortgage =
                   RoundHalfEven((10000 - cf_params.down_payment_percent)
                                     * cashflow_df[n].Price,
                                 100 * cf_params.loan_months)
            /\ ~IsNaN(cashflow_df[n].MonthlyCashFlow)

\* C6: in every record calculate_monthly_cash_flow returns,
\* PropertyTax = round(Price * 0.0125 / 12, 2) and MonthlyCashFlow =
\* round(RentEstimate - (PropertyTax + MonthlyMortgage + monthly_insurance), 2),
\* from the Price and RentEstimate the same record had in the input.
C6_TaxAndCashFlowFormula ==
    pc = "cashflow" =>
        \A n \in 1..Len(cashflow_df) :
            LET row == cashflow_df[n]
            IN  /\ row.id \in 1..Len(listings)
                /\ row.Price = listings[row.id].Price
                /\ row.RentEstimate = listings[row.id].RentEstimate
                /\ row.PropertyTax = RoundHalfEven(125 * row.Price, 1200)
                /\ IF IsNaN(row.MonthlyMortgage)
                   THEN IsNaN(row.MonthlyCashFlow)
                   ELSE row.MonthlyCashFlow =
                            100 * row.RentEstimate
                            - (row.PropertyTax + row.MonthlyMortgage
                               + 100 * cf_params.monthly_insurance)

\* C6 witness: a returned frame of two records with different prices, one
\* of them with insurance counted in a cash flow that is a number
C6_Witness ==
    /\ pc = "cashflow"
    /\ Len(cashflow_df) >= 2
    /\ cf_params.monthly_insurance = 1
    /\ \E n, m \in 1..Len(cashflow_df) :
         /\ cashflow_df[n].Price # cashflow_df[m].Price
         /\ ~IsNaN(cashflow_df[n].MonthlyCashFlow)

\* C7: the output of calculate_monthly_cash_flow is a permutation of the
\* input records, and a record with a larger MonthlyCashFlow stands before
\* every record with a smaller one.
C7_PermutationDescending ==
    pc = "cashflow" =>
        /\ Len(cashflow_df) = Len(listings)
        /\ \A m \in 1..Len(listings) :
              \E n \in 1..Len(cashflow_df) :
                 /\ cashflow_df[n].id = m
                 /\ cashflow_df[n].Price = listings[m].Price
                 /\ cashflow_df[n].RentEstimate = listings[m].RentEstimate
        /\ \A a, b \in 1..Len(cashflow_df) :
              FGt(cashflow_df[a].MonthlyCashFlow, cashflow_df[b].MonthlyCashFlow)
                 => a < b

\* C7 witness: the best record of the output was the last of three inputs
C7_Witness ==
    /\ pc = "cashflow"
    /\ Len(cashflow_df) = 3
    /\ cashflow_df[1].id = 3
    /\ FGt(cashflow_df[1].MonthlyCashFlow, cashflow_df[2].MonthlyCashFlow)
    /\ FGt(cashflow_df[2].MonthlyCashFlow, cashflow_df[3].MonthlyCashFlow)

\* C8: ties are broken by original order: two records of equal
\* MonthlyCashFlow stand in the output in the order they had in the input.
C8_TiesKeepInputOrder ==
    pc = "cashflow" =>
        \A a, b \in 1..Len(cashflow_df) :
            (a < b /\ cashflow_df[a].MonthlyCashFlow = cashflow_df[b].MonthlyCashFlow)
                => cashflow_df[a].id < cashflow_df[b].id


(***************************************************************************)
(* Properties of the projection run (specification SpecProj).              *)
(***************************************************************************)
\* C9: the loan balance is never negative and never increases: after every
\* month of the inner loop the working balance is >= 0 and <= its value
\* before that month; LoanBalance does not increase from a year to the next;
\* once the balance is 0 it stays 0 and no principal or interest is applied.
C9_BalanceNeverNegativeNeverRises ==
    ppc # "off" =>
        /\ loc.temp_balance >= 0
        /\ loc.remaining_balance >= 0
        /\ loc.temp_balance <= loc.year_start_balance
        /\ loc.remaining_balance <= loan_amount(inp)
        /\ (ppc = "month" /\ month >= 1) =>
              /\ mstep.before >= 0
              /\ loc.temp_balance <= mstep.before
              /\ mstep.before = 0 =>
                    /\ ~mstep.applied
                    /\ loc.temp_balance = 0
                    /\ mstep.interest_payment = 0
                    /\ mstep.principal_payment = 0
        /\ (ppc = "month" /\ loc.year_start_balance = 0) =>
              /\ loc.temp_balance = 0
              /\ loc.principal_paid = 0
        /\ \A n \in 1..Len(projections) :
              /\ projections[n].LoanBalance >= 0
              /\ n > 1 =>
                    /\ projections[n].LoanBalance <= projections[n - 1].LoanBalance
                    /\ projections[n - 1].LoanBalance = 0 =>
                          /\ projections[n].LoanBalance = 0
                          /\ projections[n].PrincipalPaid = 0

\* C9 witness: an interest-bearing loan with extra principal was paid off,
\* and a month of a later year found the balance at 0 and applied nothing
C9_Witness ==
    /\ ppc = "month"
    /\ month >= 1
    /\ year >= 2
    /\ inp.interest_rate.num > 0
    /\ inp.extra_payment_monthly > 0
    /\ mstep.before = 0
    /\ ~mstep.applied
    /\ projections[1].LoanBalance = 0
    /\ projections[1].PrincipalPaid > 0

\* C10: with extra_payment_monthly >= 0 and cashflow_to_principal_pct in
\* [0, 1], the extra principal applied in every month and
\* ExtraPrincipalThisYear in every year are >= 0, and
\* CumulativeExtraPrincipal does not decrease from a year to the next.
C10_ExtraPrincipalNeverNegative ==
    (/\ ppc # "off"
     /\ inp.extra_payment_monthly >= 0
     /\ inp.cashflow_to_principal_pct.num >= 0
     /\ inp.cashflow_to_principal_pct.num <= inp.cashflow_to_principal_pct.den) =>
        /\ mstep.total_extra >= 0
        /\ loc.total_extra_principal_this_year >= 0
        /\ \A n \in 1..Len(projections) :
              /\ projections[n].ExtraPrincipalThisYear >= 0
              /\ n > 1 => projections[n].CumulativeExtraPrincipal
                              >= projections[n - 1].CumulativeExtraPrincipal

\* a year of the projection run has just been recorded
YearRecorded == ppc = "year" /\ year >= 1 /\ Len(projections) = year

\* C11: cumulative cash flow is monotonically non-decreasing:
\* CumulativeCashFlow of year k+1 is >= CumulativeCashFlow of year k for
\* every year of the holding period.
C11_CumulativeCashFlowNonDecreasing ==
    \A k \in 1..(Len(projections) - 1) :
        projections[k + 1].CumulativeCashFlow >= projections[k].CumulativeCashFlow

\* C11 as amended: CumulativeCashFlow is the running sum of the years' cash
\* flows, so it does not fall in a year whose annual cash flow (12 times the
\* gross monthly cash flow, less the year's extra principal) is >= 0 and
\* does not rise in a year whose annual cash flow is <= 0.
C11_CumulativeFollowsAnnual ==
    (YearRecorded /\ year >= 2) =>
        /\ loc.annual_cash_flow >= 0 =>
              projections[year].CumulativeCashFlow
                  >= projections[year - 1].CumulativeCashFlow
        /\ loc.annual_cash_flow <= 0 =>
              projections[year].CumulativeCashFlow
                  <= projections[year - 1].CumulativeCashFlow

C11_Witness ==
    /\ YearRecorded
    /\ year >= 2
    /\ loc.annual_cash_flow > 0
    /\ projections[year].CumulativeCashFlow > projections[year - 1].CumulativeCashFlow

\* C12: in every record emitted, the 2-decimal fields satisfy
\* Equity = PropertyValue - LoanBalance exactly.
C12_EquityFieldsExact ==
    \A k \in 1..Len(projections) :
        projections[k].Equity
            = projections[k].PropertyValue - projections[k].LoanBalance

\* C12 as amended: Equity is the property value minus the remaining balance,
\* both unrounded, rounded to 2 decimals once; the emitted Equity therefore
\* differs from the emitted PropertyValue - LoanBalance by at most one cent.
C12_EquityRoundedOnce ==
    YearRecorded =>
        LET rec  == projections[year]
            diff == rec.Equity - (rec.PropertyValue - rec.LoanBalance)
        IN  /\ rec.Equity = RoundHalfEven(loc.current_property_value
                                          - loc.remaining_balance, 100)
            /\ diff \in {-1, 0, 1}

C12_Witness ==
    /\ YearRecorded
    /\ loc.remaining_balance > 0
    /\ projections[year].Equity
           # projections[year].PropertyValue - projections[year].LoanBalance

\* C13: with holding_years = N >= 1 the call emits exactly N records whose
\* Year fields are 1, 2, ..., N in that order, with no gaps and no duplicates.
C13_OneRecordPerYear ==
    /\ \A k \in 1..Len(projections) : projections[k].Year = k
    /\ Len(projections) <= inp.holding_years
    /\ ppc = "returned" => Len(projections) = inp.holding_years

C13_Witness ==
    /\ ppc = "returned"
    /\ inp.holding_years >= 2
    /\ Len(projections) = inp.holding_years
    /\ projections[Len(projections)].Year = inp.holding_years

\* amount * (1 + rate)^n, by n successive multiplications
RECURSIVE Compound(_, _, _)
Compound(amount, rate, n) ==
    IF n = 0 THEN amount ELSE FMul(Compound(amount, rate, n - 1), OnePlus(rate))

\* C14: year 1 shows the purchase price and the initial rent unchanged, and
\* each later year applies appreciation and rent growth exactly once before
\* that year's figures: year k's PropertyValue is
\* purchase_price * (1 + annual_appreciation)^(k-1) and year k's MonthlyRent
\* is monthly_rent * (1 + annual_rent_increase)^(k-1), to 2 decimals; the
\* year's tax and effective rent are computed from these compounded values.
C14_CompoundedOncePerYear ==
    /\ \A k \in 1..Len(projections) :
         /\ projections[k].PropertyValue
               = RoundHalfEven(Compound(inp.purchase_price,
                                        inp.annual_appreciation, k - 1), 100)
         /\ projections[k].MonthlyRent
               = RoundHalfEven(Compound(inp.monthly_rent,
                                        inp.annual_rent_increase, k - 1), 100)
    /\ (ppc = "month" /\ year >= 1) =>
         /\ loc.current_property_value
               = Compound(inp.purchase_price, inp.annual_appreciation, year - 1)
         /\ loc.current_monthly_rent
               = Compound(inp.monthly_rent, inp.annual_rent_increase, year - 1)
         /\ loc.effective_monthly_rent
               = RoundHalfEven(loc.current_monthly_rent
                                 * (inp.vacancy_rate.den - inp.vacancy_rate.num),
                               inp.vacancy_rate.den)

C14_Witness ==
    /\ Len(projections) >= 3
    /\ projections[1].PropertyValue = RoundHalfEven(inp.purchase_price, 100)
    /\ projections[1].MonthlyRent = RoundHalfEven(inp.monthly_rent, 100)
    /\ projections[3].PropertyValue > projections[2].PropertyValue
    /\ projections[2].PropertyValue > projections[1].PropertyValue
    /\ projections[3].MonthlyRent > projections[2].MonthlyRent

\* months of the loan gone by, this year's passes of the month loop included
MonthsElapsed == (year - 1) * 12 + month

\* C15: with interest_rate = 0 and no extra principal, every month of the
\* term pays loan_amount / total_months of principal and 0 of interest, and
\* after loan_years * 12 months the remaining balance is exactly 0.
C15_ZeroRateRetiresInTerm ==
    (/\ ppc = "month"
     /\ inp.interest_rate.num = 0
     /\ inp.extra_payment_monthly = 0
     /\ inp.cashflow_to_principal_pct.num = 0) =>
        /\ (month >= 1 /\ MonthsElapsed <= total_months(inp)) =>
              /\ mstep.applied
              /\ mstep.interest_payment = 0
              /\ mstep.principal_payment + mstep.total_extra
                    = RoundHalfEven(loan_amount(inp), total_months(inp))
        /\ MonthsElapsed = total_months(inp) => loc.temp_balance = 0

\* C16: in every year that starts with a loan balance of 0 the mortgage is no
\* expense of that year's cash flow: the gross monthly cash flow is the
\* effective rent minus (monthly tax + monthly insurance + monthly
\* maintenance) only.
C16_NoMortgageExpenseAfterPayoff ==
    (ppc = "month" /\ loc.year_start_balance = 0) =>
        LET monthly_property_tax ==
                RoundHalfEven(loc.current_property_value * inp.annual_tax_rate.num,
                              inp.annual_tax_rate.den * 12)
            monthly_maintenance ==
                RoundHalfEven(inp.purchase_price * inp.ongoing_maintenance_pct.num,
                              inp.ongoing_maintenance_pct.den * 12)
        IN  loc.monthly_cash_flow_gross
              = loc.effective_monthly_rent
                - (monthly_property_tax + inp.monthly_insurance + monthly_maintenance)

\* C17: with a fixed extra monthly payment E > 0 and
\* cashflow_to_principal_pct = 0, CumulativeExtraPrincipal is E * 12 * N
\* after every year N in which the balance has not yet reached 0, and every
\* year after the one in which the balance reaches 0 shows
\* ExtraPrincipalThisYear = 0 and PrincipalPaid = 0.
C17_FixedExtraUntilPayoff ==
    (inp.extra_payment_monthly > 0 /\ inp.cashflow_to_principal_pct.num = 0) =>
        \A n \in 1..Len(projections) :
            /\ projections[n].LoanBalance > 0 =>
                  projections[n].CumulativeExtraPrincipal
                      = RoundHalfEven(inp.extra_payment_monthly * 12 * n, 100)
            /\ (\E k \in 1..(n - 1) : projections[k].LoanBalance = 0) =>
                  /\ projections[n].ExtraPrincipalThisYear = 0
                  /\ projections[n].PrincipalPaid = 0

\* the row of the break-even call's input frame that has the given id
InputRow(id) == CHOOSE r \in {cashflow_df[k] : k \in 1..Len(cashflow_df)} : r.id = id

\* C19: every record of the break-even output carries DownPaymentPercent
\* equal to its accepted fraction rounded to 2 decimals, a value in
\* {0.20, 0.21, ..., 0.99}, and DownPaymentAmount =
\* round(DownPaymentPercent * Price, 2) for that record's own Price.
C19_PercentAndAmountOfAcceptedFraction ==
    pc = "returned" =>
        /\ Len(breakeven_df) = Len(result_df)
        /\ \A k \in 1..Len(breakeven_df) :
             LET rec == breakeven_df[k]
                 src == InputRow(rec.id)
             IN  /\ rec.DownPaymentPercent \in 20..99
                 /\ rec.Price = src.Price
                 /\ rec.DownPaymentAmount = rec.DownPaymentPercent * rec.Price
                 /\ FGt(rec.MonthlyCashFlow, 0)
                 /\ IF FGt(src.MonthlyCashFlow, 0)
                    THEN /\ rec.DownPaymentPercent = 20
                         /\ rec.MonthlyCashFlow = src.MonthlyCashFlow
                    ELSE rec.MonthlyCashFlow = CashFlowAt(src, rec.DownPaymentPercent)

C19_Witness ==
    /\ pc = "returned"
    /\ \E k \in 1..Len(breakeven_df) :
         /\ breakeven_df[k].DownPaymentPercent > 20
         /\ breakeven_df[k].DownPaymentAmount
               = breakeven_df[k].DownPaymentPercent * breakeven_df[k].Price
    /\ \E k \in 1..Len(breakeven_df) : breakeven_df[k].DownPaymentPercent = 20

\* the index in np.arange(0.20, 1.0, 0.01) of the first fraction that gives
\* the row a positive cash flow under the arguments p, 0 when none does
FirstProfitable(row, p) ==
    LET S == {n \in 1..Len(DownPcts) :
                FGt(CashFlowRow(row, p, DownPcts[n]).MonthlyCashFlow, 0)}
    IN  IF S = {} THEN 0 ELSE CHOOSE n \in S : \A m \in S : n <= m

\* the records a break-even call returns for the frame df and the arguments
\* p, as a function of df and p alone
RECURSIVE BreakEvenOf(_, _)
BreakEvenOf(df, p) ==
    IF df = <<>> THEN <<>>
    ELSE LET row  == df[Len(df)]
             rest == BreakEvenOf(SubSeq(df, 1, Len(df) - 1), p)
             n    == FirstProfitable(row, p)
             at   == CashFlowRow(row, p, DownPcts[n])
         IN  IF FGt(row.MonthlyCashFlow, 0)
             THEN Append(rest, [id |-> row.id, Price |-> row.Price,
                                RentEstimate |-> row.RentEstimate,
                                PropertyTax |-> row.PropertyTax,
                                MonthlyMortgage |-> row.MonthlyMortgage,
                                MonthlyCashFlow |-> row.MonthlyCashFlow,
                                DownPaymentPercent |-> 20,
                                DownPaymentAmount |-> 20 * row.Price])
             ELSE IF n = 0 THEN rest
             ELSE Append(rest, [id |-> at.id, Price |-> at.Price,
                                RentEstimate |-> at.RentEstimate,
                                PropertyTax |-> at.PropertyTax,
                                MonthlyMortgage |-> at.MonthlyMortgage,
                                MonthlyCashFlow |-> at.MonthlyCashFlow,
                                DownPaymentPercent |-> DownPcts[n] \div 100,
                                DownPaymentAmount |-> (DownPcts[n] \div 100) * at.Price])

\* no two rows of the frame have the same MonthlyCashFlow
NoTies(df) ==
    \A a, b \in 1..Len(df) :
        (a # b) => /\ df[a].MonthlyCashFlow # df[b].MonthlyCashFlow
                   /\ ~IsNaN(df[a].MonthlyCashFlow)

\* C20: calculate_monthly_cash_flow and calculate_break_even_down_payment
\* leave their input collection unchanged (same rows, same order, same
\* columns and values after the call as before) and retain no state between
\* invocations: the result is a function of the arguments alone, so two calls
\* with equal arguments return equal results.
C20_InputsUnchangedResultOfArguments ==
    /\ [][/\ listings' = listings
          /\ pc \in {"cashflow", "rows", "scan"} => cashflow_df' = cashflow_df]_vars
    /\ [](pc = "cashflow" =>
            /\ cashflow_df \in calculate_monthly_cash_flow(
                                   listings, cf_params, cf_params.down_payment_percent)
            /\ NoTies(cashflow_df) =>
                  calculate_monthly_cash_flow(
                      listings, cf_params, cf_params.down_payment_percent)
                    = {cashflow_df})
    /\ [](pc = "returned" => breakeven_df = BreakEvenOf(cashflow_df, be_params))

C20_Witness ==
    /\ pc = "returned"
    /\ Len(listings) >= 2
    /\ Len(cashflow_df) = Len(listings)
    /\ cashflow_df[1].id # 1
    /\ Len(breakeven_df) >= 1
    /\ \A k \in 1..Len(listings) :
         listings[k] \in [id : {k}, Price : Int, RentEstimate : Int]

\* the place in the break-even call's input frame of the row with the given id
InputPlace(id) == CHOOSE k \in 1..Len(cashflow_df) : cashflow_df[k].id = id

\* C27: the break-even output has exactly one row per accepted input record,
\* in the same relative order as the input, and the i-th DownPaymentPercent
\* belongs to the i-th output row's property: the list of percentages and
\* the accepted rows always have equal length and matching positions,
\* whatever mix of already-positive, searched and dropped records there is.
C27_RowsAndPercentagesAligned ==
    (pc \in {"rows", "scan", "returned", "KeyError", "ValueError"}) =>
        /\ pc # "ValueError"
        /\ Len(down_payment_percentages) = Len(result_df)
        /\ \A a \in 1..Len(result_df) :
             LET src == InputRow(result_df[a].id)
             IN  /\ \E k \in 1..idx : cashflow_df[k].id = result_df[a].id
                 /\ result_df[a].Price = src.Price
                 /\ IF FGt(src.MonthlyCashFlow, 0)
                    THEN down_payment_percentages[a] = 20
                    ELSE result_df[a].MonthlyCashFlow
                           = CashFlowAt(src, down_payment_percentages[a])
        /\ \A a, b \in 1..Len(result_df) :
             a < b => InputPlace(result_df[a].id) < InputPlace(result_df[b].id)
        /\ BreakEvenEnded =>
             \A k \in 1..Len(cashflow_df) :
                 (\E a \in 1..Len(result_df) : result_df[a].id = cashflow_df[k].id)
                   <=> \/ FGt(cashflow_df[k].MonthlyCashFlow, 0)
                       \/ FirstProfitable(cashflow_df[k], be_params) # 0
        /\ pc = "returned" =>
             /\ Len(breakeven_df) = Len(result_df)
             /\ \A a \in 1..Len(breakeven_df) :
                  /\ breakeven_df[a].id = result_df[a].id
                  /\ breakeven_df[a].DownPaymentPercent = down_payment_percentages[a]

\* an already-positive, a searched and a dropped record in one call, the
\* searched one before the already-positive one
C27_Witness ==
    /\ pc = "returned"
    /\ Len(cashflow_df) = 3
    /\ Len(breakeven_df) = 2
    /\ breakeven_df[1].DownPaymentPercent > 20
    /\ breakeven_df[2].DownPaymentPercent = 20

(***************************************************************************)
(* Properties of the analysis run on invalid input (SpecInvalid).          *)
(***************************************************************************)
\* the table holds a row with a negative Price
HasNegativePrice == \E k \in 1..Len(listings) : listings[k].Price < 0

\* C18: a negative price handed to calculate_monthly_cash_flow or
\* calculate_break_even_down_payment is rejected: the call fails fast and
\* returns no result rows with figures derived from the invalid value.
C18_NegativePriceRejected ==
    HasNegativePrice =>
        /\ \A k \in 1..Len(cashflow_df) : cashflow_df[k].Price >= 0
        /\ \A k \in 1..Len(breakeven_df) : breakeven_df[k].Price >= 0

GrossOfYear ==
    LET monthly_property_tax ==
            RoundHalfEven(loc.current_property_value * inp.annual_tax_rate.num,
                          inp.annual_tax_rate.den * 12)
        monthly_maintenance ==
            RoundHalfEven(inp.purchase_price * inp.ongoing_maintenance_pct.num,
                          inp.ongoing_maintenance_pct.den * 12)
    IN  loc.effective_monthly_rent
          - (monthly_mortgage(inp) + monthly_property_tax
             + inp.monthly_insurance + monthly_maintenance)

\* C22: for every year, AnnualCashFlow = gross monthly cash flow * 12 -
\* ExtraPrincipalThisYear, where the gross monthly cash flow is computed once
\* per year and held over its 12 months, and the cumulative cash invested is
\* down payment + initial repairs + CumulativeExtraPrincipal to date (it is
\* what TotalProfit takes off the sale proceeds and the cumulative cash flow).
C22_AnnualCashFlowAndCashInvested ==
    /\ ppc = "month" => loc.monthly_cash_flow_gross = GrossOfYear
    /\ YearRecorded =>
         LET rec == projections[year]
             invested == down_payment(inp) + inp.initial_repairs
                         + loc.cumulative_extra_principal
             net_proceeds == loc.current_property_value - loc.remaining_balance
                             - RoundHalfEven(loc.current_property_value * 6, 100)
         IN  /\ loc.monthly_cash_flow_gross = GrossOfYear
             /\ loc.annual_cash_flow
                   = loc.monthly_cash_flow_gross * 12
                     - loc.total_extra_principal_this_year
             /\ rec.AnnualCashFlow = RoundHalfEven(loc.annual_cash_flow, 100)
             /\ rec.ExtraPrincipalThisYear
                   = RoundHalfEven(loc.total_extra_principal_this_year, 100)
             /\ rec.CumulativeExtraPrincipal
                   = RoundHalfEven(loc.cumulative_extra_principal, 100)
             /\ rec.TotalProfit
                   = RoundHalfEven(net_proceeds + loc.cumulative_cash_flow
                                   - invested, 100)

C22_Witness ==
    /\ YearRecorded
    /\ year >= 2
    /\ inp.initial_repairs > 0
    /\ loc.total_extra_principal_this_year > 0
    /\ loc.cumulative_extra_principal > loc.total_extra_principal_this_year
    /\ projections[year].AnnualCashFlow
          = RoundHalfEven(loc.monthly_cash_flow_gross * 12
                          - loc.total_extra_principal_this_year, 100)

\* the PrincipalPaid fields of the first n records, added up
RECURSIVE SumPrincipalPaid(_)
SumPrincipalPaid(n) ==
    IF n = 0 THEN 0 ELSE SumPrincipalPaid(n - 1) + projections[n].PrincipalPaid

\* C25: principal is conserved: each year's principal paid is the balance at
\* the start of that year minus the balance at its end, the next year starts
\* from that balance, and so the principal paid over the years plus the
\* remaining balance is the original loan amount
\* purchase_price * (1 - down_payment_pct); the emitted 2-decimal fields add
\* up to it within the rounding of one field per year.
C25_PrincipalConserved ==
    /\ ppc = "month" =>
         /\ loc.year_start_balance = loc.remaining_balance
         /\ loc.principal_paid = loc.year_start_balance - loc.temp_balance
         /\ year = 1 /\ month = 0 =>
               loc.year_start_balance
                 = inp.purchase_price
                   - RoundHalfEven(inp.purchase_price * inp.down_payment_pct.num,
                                   inp.down_payment_pct.den)
    /\ YearRecorded =>
         LET loan == inp.purchase_price
                     - RoundHalfEven(inp.purchase_price * inp.down_payment_pct.num,
                                     inp.down_payment_pct.den)
             diff == SumPrincipalPaid(year) + projections[year].LoanBalance
                     - RoundHalfEven(loan, 100)
         IN  /\ loc.principal_paid = loc.year_start_balance - loc.remaining_balance
             /\ projections[year].PrincipalPaid
                   = RoundHalfEven(loc.principal_paid, 100)
             /\ projections[year].LoanBalance
                   = RoundHalfEven(loc.remaining_balance, 100)
             /\ diff <= year /\ -diff <= year

C25_Witness ==
    /\ YearRecorded
    /\ year >= 2
    /\ projections[1].LoanBalance > 0
    /\ projections[1].PrincipalPaid > 0
    /\ loc.principal_paid > 0
    /\ loc.principal_paid = loc.year_start_balance - loc.remaining_balance
    /\ inp.extra_payment_monthly > 0

(***************************************************************************)
(* Properties of the dashboard (specification SpecDash).                   *)
(***************************************************************************)
\* the columns of a listing row
ListingOf(row) ==
    [id |-> row.id, Price |-> row.Price, RentEstimate |-> row.RentEstimate]

\* C24: the frame handed to calculate_break_even_down_payment carries, in
\* every row, the MonthlyCashFlow of calculate_monthly_cash_flow at a 20%
\* down payment with the same rate, term and insurance as the break-even
\* call.
C24_BreakEvenInputAtTwentyPercent ==
    breakeven_call.called =>
        \A k \in 1..Len(breakeven_call.df) :
            breakeven_call.df[k].MonthlyCashFlow =
                CashFlowRow(breakeven_call.df[k], breakeven_call, 2000).MonthlyCashFlow

\* C26: the analysis the dashboard holds (and shows, and hands to the
\* break-even calculation) is an analysis of the listings it holds: the
\* same rows, each once.
C26_AnalysisOfCurrentListings ==
    analysis_data # None =>
        /\ Len(analysis_data) = Len(listings_data)
        /\ \A j \in 1..Len(listings_data) :
              Cardinality({k \in 1..Len(analysis_data) :
                             ListingOf(analysis_data[k]) = listings_data[j]}) = 1

(***************************************************************************)
(* Termination (SpecBoth).                                                 *)
(***************************************************************************)
\* loop passes and calls the analysis run can still make: per record at most
\* one pass of the row loop, 80 evaluations and the skip
AnalysisStepsLeft ==
    CASE pc = "start"    -> 3 + 82 * Len(listings)
      [] pc = "cashflow" -> 2 + 82 * Len(cashflow_df)
      [] pc = "rows"     -> 1 + 82 * (Len(cashflow_df) - idx)
      [] pc = "scan"     -> 1 + 82 * (Len(cashflow_df) - idx) + (82 - scan)
      [] OTHER           -> 0

\* loop passes the projection run can still make: per year the year's top,
\* 12 passes of the inner loop and the year's record
ProjectionStepsLeft ==
    CASE ppc = "year"  -> 1 + 14 * (inp.holding_years - year)
      [] ppc = "month" -> 2 + 14 * (inp.holding_years - year) + (12 - month)
      [] OTHER         -> 0

\* the run has ended: by a return, or by an exception of the break-even call
RunEnded == BreakEvenEnded \/ ppc = "returned"

\* C23: every computation ends within its bound:
\* calculate_break_even_down_payment evaluates the cash-flow formula at most
\* 80 times (fractions 0.20..0.99) per input record and then finishes, and
\* calculate_investment_projections makes exactly holding_years * 12 passes
\* of its inner loop and then returns.  Every step uses up one of a finite
\* number of steps left, and a run that has not ended stands at a call or
\* inside a loop whose counter is in range, where a step can be taken.
C23_TerminatesWithinBounds ==
    /\ [][/\ AnalysisStepsLeft' + ProjectionStepsLeft'
               < AnalysisStepsLeft + ProjectionStepsLeft
          /\ AnalysisStepsLeft' >= 0
          /\ ProjectionStepsLeft' >= 0]_vars
    /\ [](~RunEnded =>
            \/ pc \in {"start", "cashflow"}
            \/ pc = "rows" /\ idx <= Len(cashflow_df)
            \/ pc = "scan" /\ scan >= 1
            \/ ppc = "year" /\ year <= LastYear(inp)
            \/ ppc = "month" /\ month <= 12)
    /\ [](/\ Len(tested) <= 80
          /\ pc = "scan" => scan = Len(tested) + 1)
    /\ [](ppc = "month" => MonthsElapsed <= inp.holding_years * 12)
    /\ [](ppc = "returned" =>
            /\ month = 12
            /\ MonthsElapsed = inp.holding_years * 12)

\* a record that took all 80 evaluations
C23_Witness ==
    /\ pc = "rows"
    /\ outcome = "skipped"
    /\ Len(tested) = 80
    /\ tested[80].down_pct = 9900

====
